---- MODULE Spec2Model ----
(***************************************************************************)
(* Model of netlify/netlify/functions/analyze.py: the analyze handler and  *)
(* KalshiAnalyzer (get_active_markets, search_news, analyze_event,         *)
(* run_analysis).                                                          *)
(*                                                                         *)
(* Probabilities, prices and edges are kept in integer percentage points   *)
(* (hundredths): 0.05 is 5, a yes_bid of 40 is a market_price of 40.       *)
(* Python floats are not modelled; rounding at the thresholds is outside   *)
(* the model.                                                              *)
(***************************************************************************)
EXTENDS Integers, Sequences, FiniteSets, TLC

\* ---------------------------------------------------------------- bounds
MaxMarkets == 2
MaxArticles == 6
MaxItems == 6

\* ------------------------------------------------------ program constants
DefaultMaxEvents == 10
DefaultMinEdge == 5
MaxEventsCap == 15
PageSize == 5
FeedItems == 5
DefaultYesBid == 50
DefaultProbability == 50
FallbackProbability == 50

\* --------------------------------------------------------------- helpers
Min(a, b) == IF a <= b THEN a ELSE b

Max(a, b) == IF a >= b THEN a ELSE b

Abs(x) == IF x < 0 THEN -x ELSE x

\* Python s[:n] for any integer n (a negative n counts from the end).
PySliceTo(s, n) ==
    IF n >= 0 THEN SubSeq(s, 1, Min(n, Len(s)))
    ELSE SubSeq(s, 1, Max(Len(s) + n, 0))

\* ------------------------------------------------------- query parameters
\* One entry of queryStringParameters: absent, a numeric string or any
\* other string.
NoParam == [given |-> FALSE, numeric |-> FALSE, value |-> 0]

NumParam(n) == [given |-> TRUE, numeric |-> TRUE, value |-> n]

BadParam == [given |-> TRUE, numeric |-> FALSE, value |-> 0]

MaxEventsParams == {NoParam, BadParam} \cup {NumParam(n) : n \in {-1, 0, 1, 20}}

MinEdgeParams == {NoParam, BadParam, NumParam(10)}

\* int(params.get('max_events', 10)) / float(params.get('min_edge', 0.05))
ParamValue(p, default) == IF p.given THEN p.value ELSE default

ParamRaises(p) == p.given /\ ~p.numeric

\* ---------------------------------------------------------------- markets
Market(t, hasBid, bid) == [ticker |-> t, has_yes_bid |-> hasBid, yes_bid |-> bid]

BidChoices == {<<FALSE, 0>>, <<TRUE, 40>>, <<TRUE, 60>>}

Listings ==
    UNION {{[k \in 1..n |-> Market(k, f[k][1], f[k][2])] : f \in [1..n -> BidChoices]}
           : n \in 0..MaxMarkets}

\* market.get('yes_bid', 50)
YesBid(m) == IF m.has_yes_bid THEN m.yes_bid ELSE DefaultYesBid

\* ------------------------------------------------------------ JSON values
Keys == {"estimated_probability", "confidence", "reasoning"}

Confidences == {"LOW", "MEDIUM", "HIGH"}

\* A parsed JSON value: an object with some of the three keys, or a value
\* that is not an object. prob_type is the JSON type of estimated_probability.
JObject(keys, ptype, p, c, r) ==
    [type |-> "object", keys |-> keys, prob_type |-> ptype,
     estimated_probability |-> p, confidence |-> c, reasoning |-> r]

JArray == [type |-> "array", keys |-> {}, prob_type |-> "number",
           estimated_probability |-> 0, confidence |-> "", reasoning |-> <<>>]

NoValue == [type |-> "unset", keys |-> {}, prob_type |-> "number",
            estimated_probability |-> 0, confidence |-> "", reasoning |-> <<>>]

\* dict.get(key, default) on an object
Get(obj, key, default) == IF key \in obj.keys THEN obj[key] ELSE default

\* ------------------------------------------------------- model responses
\* The text of a model reply is a sequence of tokens: the two code-fence
\* markers the code removes (three backquotes followed by json and a newline,
\* and three backquotes alone), a well-formed JSON document, or other text.
FenceJson == [tok |-> "fence_json", value |-> NoValue]

Fence == [tok |-> "fence", value |-> NoValue]

Junk == [tok |-> "junk", value |-> NoValue]

Doc(v) == [tok |-> "json", value |-> v]

Payloads ==
    { JObject(Keys, "number", 60, "HIGH", <<"text">>),
      JObject(Keys, "number", 50, "LOW", <<"text">>),
      JObject({"confidence"}, "number", 0, "MEDIUM", <<>>),
      JObject(Keys, "string", 0, "HIGH", <<"text">>),
      JArray }

Texts ==
    {<<Doc(v)>> : v \in Payloads}
        \cup {<<FenceJson, Doc(JObject(Keys, "number", 60, "HIGH", <<"text">>)), Fence>>,
              <<Junk>>, <<Doc(JArray), Junk>>}

NoReply == [kind |-> "none", text |-> <<>>]

ModelReplies == {[kind |-> "error", text |-> <<>>]}
                    \cup {[kind |-> "message", text |-> t] : t \in Texts}

\* ---------------------------------------------------------- news providers
Article(ok) == [wellformed |-> ok]

Repeat(x, n) == [k \in 1..n |-> x]

ArticleCounts == {0, MaxArticles}

\* What the primary provider can answer with: a list of well-formed
\* articles, or a list holding an article the mapping chokes on (its
\* 'source' is null, so .get('name') raises).
ArticleLists ==
    {Repeat(Article(TRUE), n) : n \in ArticleCounts}
        \cup {<<Article(FALSE), Article(TRUE)>>,
              Repeat(Article(TRUE), 3) \o <<Article(FALSE)>>}

PrimaryReplies ==
    {[kind |-> "error", articles |-> <<>>], [kind |-> "status", articles |-> <<>>]}
        \cup {[kind |-> "ok", articles |-> a] : a \in ArticleLists}

ItemCounts == {0, 3, MaxItems}

FeedReplies ==
    {[kind |-> "error", items |-> 0], [kind |-> "status", items |-> 0]}
        \cup {[kind |-> "ok", items |-> n] : n \in ItemCounts}

PrimarySource == [source |-> "Reuters", description |-> "text"]

FeedSource == [source |-> "Google News", description |-> ""]

\* Index of the first article of a whose mapping raises, Len(a) + 1 if none.
FirstBad(a) ==
    IF \E k \in 1..Len(a) : ~a[k].wellformed
    THEN CHOOSE k \in 1..Len(a) :
             ~a[k].wellformed /\ \A j \in 1..(k - 1) : a[j].wellformed
    ELSE Len(a) + 1

\* for article in articles[:5]: sources.append({...}); an exception in the
\* loop is caught outside it and leaves what was appended so far.
NewsApiSourcesAll(articles) == Repeat(PrimarySource, FirstBad(articles) - 1)

NewsApiSources(articles) ==
    Repeat(PrimarySource, FirstBad(PySliceTo(articles, PageSize)) - 1)

\* Step 1 of search_news: the sources after the `if self.news_api_key:` block.
PrimaryStep(key, reply) ==
    IF key /\ reply.kind = "ok" THEN NewsApiSources(reply.articles) ELSE <<>>

\* `if not sources:` -- the fallback feed is queried exactly then.
FallbackAlways(srcs) == TRUE

FallbackNeeded(srcs) == srcs = <<>>

\* items = soup.find_all('item')[:5]; one source per item
FeedSources(n) == Repeat(FeedSource, Min(n, FeedItems))

\* Step 2 of search_news: the sources after the fallback block.
FallbackStep(srcs, reply) ==
    IF reply.kind = "ok" THEN srcs \o FeedSources(reply.items) ELSE srcs

\* ----------------------------------------------------------- analyze_event
IsFence(t) == t.tok \in {"fence_json", "fence"}

\* response_text.replace(fence_json, '').replace(fence, '').strip()
StripFences(text) == SelectSeq(text, LAMBDA t : ~IsFence(t))

\* json.loads succeeds on exactly one well-formed document.
Parses(text) == Len(text) = 1 /\ text[1].tok = "json"

ErrorMessage(reply) ==
    IF reply.kind = "error" THEN "Connection error" ELSE "Expecting value"

FallbackEstimateZero(reply) ==
    JObject(Keys, "number", 0, "LOW", <<"Error:", ErrorMessage(reply)>>)

FallbackEstimate(reply) ==
    JObject(Keys, "number", FallbackProbability, "LOW",
            <<"Error:", ErrorMessage(reply)>>)

\* The value analyze_event returns for a reply of the model endpoint.
AnalyzeEventValue(reply) ==
    IF reply.kind = "message" /\ Parses(StripFences(reply.text))
    THEN StripFences(reply.text)[1].value
    ELSE FallbackEstimate(reply)

\* ------------------------------------------------------------ run_analysis
EdgeSwapped(prob, price) == price - prob

Edge(prob, price) == prob - price

RecommendationSwapped(confidence, edge) ==
    IF confidence = "HIGH" /\ edge > 5 THEN "BUY"
    ELSE IF confidence = "HIGH" /\ edge > 10 THEN "STRONG_BUY"
    ELSE IF confidence = "HIGH" /\ edge < -10 THEN "STRONG_SELL"
    ELSE IF edge > 15 THEN "BUY"
    ELSE IF edge < -15 THEN "SELL"
    ELSE "HOLD"

RecommendationSymmetric(confidence, edge) ==
    IF confidence = "HIGH" /\ edge > 10 THEN "STRONG_BUY"
    ELSE IF confidence = "HIGH" /\ edge > 5 THEN "BUY"
    ELSE IF confidence = "HIGH" /\ edge < -10 THEN "STRONG_SELL"
    ELSE IF confidence = "HIGH" /\ edge < -5 THEN "SELL"
    ELSE IF edge > 15 THEN "BUY"
    ELSE IF edge < -15 THEN "SELL"
    ELSE "HOLD"

Recommendation(confidence, edge) ==
    IF confidence = "HIGH" /\ edge > 10 THEN "STRONG_BUY"
    ELSE IF confidence = "HIGH" /\ edge > 5 THEN "BUY"
    ELSE IF confidence = "HIGH" /\ edge < -10 THEN "STRONG_SELL"
    ELSE IF edge > 15 THEN "BUY"
    ELSE IF edge < -15 THEN "SELL"
    ELSE "HOLD"

\* analysis.get(...) needs a dict; the subtraction needs a number.
Scorable(a) ==
    /\ a.type = "object"
    /\ ("estimated_probability" \in a.keys => a.prob_type = "number")

\* The record run_analysis appends for one market.
AnalysisResult(market, a, srcs) ==
    LET market_price == YesBid(market)
        estimated_prob == Get(a, "estimated_probability", DefaultProbability)
        edge == Edge(estimated_prob, market_price)
        confidence == Get(a, "confidence", "LOW")
    IN  [ticker |-> market.ticker,
         market_price |-> market_price,
         estimated_probability |-> estimated_prob,
         edge |-> edge,
         confidence |-> confidence,
         recommendation |-> Recommendation(confidence, edge),
         reasoning |-> Get(a, "reasoning", <<>>),
         sources_count |-> Len(srcs)]

\* ------------------------------------------------------------------ handler
\* [r for r in results if abs(r['edge']) >= min_edge]
FilterByEdgeStrict(rs, minEdge) == SelectSeq(rs, LAMBDA r : Abs(r.edge) > minEdge)

FilterByEdge(rs, minEdge) == SelectSeq(rs, LAMBDA r : Abs(r.edge) >= minEdge)

\* list.sort(key=abs(edge), reverse=True): stable, so records of equal key
\* keep their order.
RECURSIVE InsertDesc(_, _)
InsertDesc(r, sorted) ==
    IF sorted = <<>> THEN <<r>>
    ELSE IF Abs(Head(sorted).edge) >= Abs(r.edge)
         THEN <<Head(sorted)>> \o InsertDesc(r, Tail(sorted))
         ELSE <<r>> \o sorted

RECURSIVE InsertAsc(_, _)
InsertAsc(r, sorted) ==
    IF sorted = <<>> THEN <<r>>
    ELSE IF Abs(Head(sorted).edge) <= Abs(r.edge)
         THEN <<Head(sorted)>> \o InsertAsc(r, Tail(sorted))
         ELSE <<r>> \o sorted

RECURSIVE SortAscending(_)
SortAscending(rs) ==
    IF rs = <<>> THEN <<>>
    ELSE InsertAsc(rs[Len(rs)], SortAscending(SubSeq(rs, 1, Len(rs) - 1)))

RECURSIVE SortByAbsEdge(_)
SortByAbsEdge(rs) ==
    IF rs = <<>> THEN <<>>
    ELSE InsertDesc(rs[Len(rs)], SortByAbsEdge(SubSeq(rs, 1, Len(rs) - 1)))

\* -------------------------------------------------------------------- state
VARIABLES
    pc,                \* where the request is: handler, fetch, news, fallback,
                       \* estimate, score, respond, done
    httpMethod,        \* event['httpMethod']
    anthropic_key,     \* ANTHROPIC_API_KEY is set
    news_api_key,      \* NEWS_API_KEY is set
    params,            \* event['queryStringParameters']
    max_events,        \* handler local, after the cap
    min_edge,          \* handler local
    markets,           \* run_analysis: get_active_markets()[:max_events]
    idx,               \* run_analysis: position of `market` in markets
    sources,           \* search_news local / run_analysis local
    news_log,          \* the provider calls made by the current search_news
    llm,               \* the last reply of the model endpoint
    analysis,          \* run_analysis local: what analyze_event returned
    results,           \* run_analysis local, then the handler's results
    filtered_results,  \* handler local
    response           \* what the handler returned

vars == <<pc, httpMethod, anthropic_key, news_api_key, params, max_events,
          min_edge, markets, idx, sources, news_log, llm, analysis, results,
          filtered_results, response>>

NoResponse ==
    [statusCode |-> 0, kind |-> "none", total_analyzed |-> 0, total_opportunities |-> 0]

ErrorResponse(code, kind) ==
    [statusCode |-> code, kind |-> kind, total_analyzed |-> 0, total_opportunities |-> 0]

Locals ==
    /\ max_events = 0
    /\ min_edge = 0
    /\ markets = <<>>
    /\ idx = 0
    /\ sources = <<>>
    /\ news_log = <<>>
    /\ llm = NoReply
    /\ analysis = NoValue
    /\ results = <<>>
    /\ filtered_results = <<>>
    /\ response = NoResponse

Init ==
    /\ pc = "handler"
    /\ httpMethod \in {"GET", "OPTIONS"}
    /\ anthropic_key \in BOOLEAN
    /\ news_api_key \in BOOLEAN
    /\ params \in [max_events : MaxEventsParams, min_edge : MinEdgeParams]
    /\ Locals

\* -------------------------------------------------------------- handler entry
\* if http_method == 'OPTIONS': return 200 {'status': 'ok'}
HandleOptions ==
    /\ pc = "handler"
    /\ httpMethod = "OPTIONS"
    /\ response' = ErrorResponse(200, "options")
    /\ pc' = "done"
    /\ UNCHANGED <<httpMethod, anthropic_key, news_api_key, params, max_events,
                   min_edge, markets, idx, sources, news_log, llm, analysis,
                   results, filtered_results>>

\* if not anthropic_key: return 500
HandleMissingKey ==
    /\ pc = "handler"
    /\ httpMethod # "OPTIONS"
    /\ ~anthropic_key
    /\ response' = ErrorResponse(500, "not_configured")
    /\ pc' = "done"
    /\ UNCHANGED <<httpMethod, anthropic_key, news_api_key, params, max_events,
                   min_edge, markets, idx, sources, news_log, llm, analysis,
                   results, filtered_results>>

\* int(...) or float(...) raises ValueError: except Exception -> 500
HandleBadParams ==
    /\ pc = "handler"
    /\ httpMethod # "OPTIONS"
    /\ anthropic_key
    /\ ParamRaises(params.max_events) \/ ParamRaises(params.min_edge)
    /\ response' = ErrorResponse(500, "ValueError")
    /\ pc' = "done"
    /\ UNCHANGED <<httpMethod, anthropic_key, news_api_key, params, max_events,
                   min_edge, markets, idx, sources, news_log, llm, analysis,
                   results, filtered_results>>

\* max_events = min(int(...), 15); min_edge = float(...); KalshiAnalyzer(...)
HandleParse ==
    /\ pc = "handler"
    /\ httpMethod # "OPTIONS"
    /\ anthropic_key
    /\ ~ParamRaises(params.max_events)
    /\ ~ParamRaises(params.min_edge)
    /\ max_events' = Min(ParamValue(params.max_events, DefaultMaxEvents), MaxEventsCap)
    /\ min_edge' = ParamValue(params.min_edge, DefaultMinEdge)
    /\ pc' = "fetch"
    /\ UNCHANGED <<httpMethod, anthropic_key, news_api_key, params, markets, idx,
                   sources, news_log, llm, analysis, results, filtered_results,
                   response>>

\* ---------------------------------------------------------------- run_analysis
\* What get_active_markets returns for a reply of the market provider.
ActiveMarkets(reply) == IF reply.kind = "ok" THEN reply.markets ELSE <<>>

MarketReplies ==
    {[kind |-> "error", markets |-> <<>>], [kind |-> "status", markets |-> <<>>]}
        \cup {[kind |-> "ok", markets |-> l] : l \in Listings}

\* markets = self.get_active_markets()[:max_events]; results = []
GetActiveMarkets ==
    /\ pc = "fetch"
    /\ \E reply \in MarketReplies :
           markets' = PySliceTo(ActiveMarkets(reply), max_events)
    /\ results' = <<>>
    /\ idx' = 1
    /\ pc' = IF markets' = <<>> THEN "respond" ELSE "news"
    /\ UNCHANGED <<httpMethod, anthropic_key, news_api_key, params, max_events,
                   min_edge, sources, news_log, llm, analysis, filtered_results,
                   response>>

\* search_news, first block: sources = []; the primary provider if configured
SearchNewsPrimary ==
    /\ pc = "news"
    /\ \E reply \in PrimaryReplies :
           /\ sources' = PrimaryStep(news_api_key, reply)
           /\ news_log' = IF news_api_key
                          THEN << [provider |-> "newsapi", produced |-> Len(sources')] >>
                          ELSE <<>>
    /\ pc' = IF FallbackNeeded(sources') THEN "fallback" ELSE "estimate"
    /\ UNCHANGED <<httpMethod, anthropic_key, news_api_key, params, max_events,
                   min_edge, markets, idx, llm, analysis, results,
                   filtered_results, response>>

\* search_news, second block: the RSS feed; return sources
SearchNewsFallback ==
    /\ pc = "fallback"
    /\ \E reply \in FeedReplies :
           /\ sources' = FallbackStep(sources, reply)
           /\ news_log' = Append(news_log,
                                 [provider |-> "rss",
                                  produced |-> Len(sources') - Len(sources)])
    /\ pc' = "estimate"
    /\ UNCHANGED <<httpMethod, anthropic_key, news_api_key, params, max_events,
                   min_edge, markets, idx, llm, analysis, results,
                   filtered_results, response>>

\* analysis = self.analyze_event(market, sources)
AnalyzeEvent ==
    /\ pc = "estimate"
    /\ \E reply \in ModelReplies :
           /\ llm' = reply
           /\ analysis' = AnalyzeEventValue(reply)
    /\ pc' = "score"
    /\ UNCHANGED <<httpMethod, anthropic_key, news_api_key, params, max_events,
                   min_edge, markets, idx, sources, news_log, results,
                   filtered_results, response>>

\* edge, recommendation, results.append({...}); next market or return
Score ==
    /\ pc = "score"
    /\ Scorable(analysis)
    /\ results' = Append(results, AnalysisResult(markets[idx], analysis, sources))
    /\ idx' = idx + 1
    /\ pc' = IF idx = Len(markets) THEN "respond" ELSE "news"
    /\ UNCHANGED <<httpMethod, anthropic_key, news_api_key, params, max_events,
                   min_edge, markets, sources, news_log, llm, analysis,
                   filtered_results, response>>

\* analysis.get on a non-dict (AttributeError) or a non-number minus a float
\* (TypeError) leaves run_analysis; the handler's except Exception answers 500
ScoreRaises ==
    /\ pc = "score"
    /\ ~Scorable(analysis)
    /\ response' = ErrorResponse(500, IF analysis.type = "object"
                                      THEN "TypeError" ELSE "AttributeError")
    /\ pc' = "done"
    /\ UNCHANGED <<httpMethod, anthropic_key, news_api_key, params, max_events,
                   min_edge, markets, idx, sources, news_log, llm, analysis,
                   results, filtered_results>>

\* filter, sort, totals, return 200
Respond ==
    /\ pc = "respond"
    /\ filtered_results' = SortByAbsEdge(FilterByEdge(results, min_edge))
    /\ response' = [statusCode |-> 200, kind |-> "success",
                    total_analyzed |-> Len(results),
                    total_opportunities |-> Len(filtered_results')]
    /\ pc' = "done"
    /\ UNCHANGED <<httpMethod, anthropic_key, news_api_key, params, max_events,
                   min_edge, markets, idx, sources, news_log, llm, analysis,
                   results>>

Next ==
    \/ HandleOptions
    \/ HandleMissingKey
    \/ HandleBadParams
    \/ HandleParse
    \/ GetActiveMarkets
    \/ SearchNewsPrimary
    \/ SearchNewsFallback
    \/ AnalyzeEvent
    \/ Score
    \/ ScoreRaises
    \/ Respond

Spec == Init /\ [][Next]_vars

\* ------------------------------------------------- the scoring step alone
\* The scoring step of run_analysis over every price and every estimate in
\* whole percentage points, so that every edge in -100..100 and every
\* confidence is scored.
Points == 0..100

InitClassify ==
    /\ pc = "score"
    /\ httpMethod = "GET"
    /\ anthropic_key = TRUE
    /\ news_api_key = FALSE
    /\ params = [max_events |-> NoParam, min_edge |-> NoParam]
    /\ max_events = DefaultMaxEvents
    /\ min_edge = DefaultMinEdge
    /\ \E bid \in Points : markets = <<Market(1, TRUE, bid)>>
    /\ idx = 1
    /\ sources = <<>>
    /\ news_log = << [provider |-> "rss", produced |-> 0] >>
    /\ \E p \in Points, c \in Confidences :
           /\ analysis = JObject(Keys, "number", p, c, <<"text">>)
           /\ llm = [kind |-> "message", text |-> <<Doc(analysis)>>]
    /\ results = <<>>
    /\ filtered_results = <<>>
    /\ response = NoResponse

NextClassify == Score \/ Respond

SpecClassify == InitClassify /\ [][NextClassify]_vars

\* ----------------------------------------------------------------- claims
\* The rule table of the specification, as data: rule k applies to a HIGH
\* confidence only (high) or to any, and to edges above (">") or below ("<")
\* its threshold.
Rules ==
    << [high |-> TRUE,  cmp |-> ">", thr |-> 10,  rec |-> "STRONG_BUY"],
       [high |-> TRUE,  cmp |-> ">", thr |-> 5,   rec |-> "BUY"],
       [high |-> TRUE,  cmp |-> "<", thr |-> -10, rec |-> "STRONG_SELL"],
       [high |-> FALSE, cmp |-> ">", thr |-> 15,  rec |-> "BUY"],
       [high |-> FALSE, cmp |-> "<", thr |-> -15, rec |-> "SELL"] >>

Matches(rule, confidence, edge) ==
    /\ rule.high => confidence = "HIGH"
    /\ IF rule.cmp = ">" THEN edge > rule.thr ELSE edge < rule.thr

FirstMatch(confidence, edge) ==
    IF \E k \in 1..Len(Rules) : Matches(Rules[k], confidence, edge)
    THEN Rules[CHOOSE k \in 1..Len(Rules) :
                   /\ Matches(Rules[k], confidence, edge)
                   /\ \A j \in 1..(k - 1) : ~Matches(Rules[j], confidence, edge)].rec
    ELSE "HOLD"

Results == {results[k] : k \in 1..Len(results)}

\* C1: for every confidence in {LOW, MEDIUM, HIGH} and every edge in
\* -100..100 points, the recommendation run_analysis records is that of the
\* first matching rule of the ordered table; in particular HIGH/12 is
\* STRONG_BUY, HIGH/7 BUY, HIGH/-12 STRONG_SELL, LOW/20 BUY, LOW/-20 SELL and
\* LOW/0 HOLD.
C1_FirstMatchingRule ==
    \A r \in Results :
        /\ r.recommendation = FirstMatch(r.confidence, r.edge)
        /\ (r.confidence = "HIGH" /\ r.edge = 12) => r.recommendation = "STRONG_BUY"
        /\ (r.confidence = "HIGH" /\ r.edge = 7) => r.recommendation = "BUY"
        /\ (r.confidence = "HIGH" /\ r.edge = -12) => r.recommendation = "STRONG_SELL"
        /\ (r.confidence = "LOW" /\ r.edge = 20) => r.recommendation = "BUY"
        /\ (r.confidence = "LOW" /\ r.edge = -20) => r.recommendation = "SELL"
        /\ (r.confidence = "LOW" /\ r.edge = 0) => r.recommendation = "HOLD"

C1_Witness ==
    \E r \in Results :
        r.confidence = "HIGH" /\ r.edge = 7 /\ r.recommendation = "BUY"

\* C10 as stated: a HIGH-confidence market with edge in (5, 10] points gets
\* BUY, and a HIGH-confidence market with edge between -15 and -10 points
\* falls through to HOLD.
C10_Original ==
    \A r \in Results :
        /\ (r.confidence = "HIGH" /\ r.edge > 5 /\ r.edge <= 10)
               => r.recommendation = "BUY"
        /\ (r.confidence = "HIGH" /\ r.edge > -15 /\ r.edge < -10)
               => r.recommendation = "HOLD"

\* C10 amended: a HIGH-confidence market with edge in (5, 10] points gets
\* BUY; one with edge in [-15, -10) matches rule 3 and gets STRONG_SELL; the
\* HIGH-confidence edges that match no SELL-side rule and fall through to HOLD
\* are those in [-10, -5), the mirror image of the BUY range.
C10_Asymmetry ==
    \A r \in Results :
        /\ (r.confidence = "HIGH" /\ r.edge > 5 /\ r.edge <= 10)
               => r.recommendation = "BUY"
        /\ (r.confidence = "HIGH" /\ r.edge >= -15 /\ r.edge < -10)
               => r.recommendation = "STRONG_SELL"
        /\ (r.confidence = "HIGH" /\ r.edge >= -10 /\ r.edge < -5)
               => r.recommendation = "HOLD"

C10_Witness ==
    \E r \in Results :
        r.confidence = "HIGH" /\ r.edge = -7 /\ r.recommendation = "HOLD"

\* The fallback Estimate {0.5, "LOW", "Error: ..."}.
IsFallback(a) ==
    /\ a.type = "object"
    /\ a.keys = Keys
    /\ a.prob_type = "number"
    /\ a.estimated_probability = 50
    /\ a.confidence = "LOW"
    /\ Len(a.reasoning) >= 1
    /\ a.reasoning[1] = "Error:"

\* The reply is text that holds one JSON document once the fences are gone.
ValidJson(reply) ==
    /\ reply.kind = "message"
    /\ Cardinality({k \in 1..Len(reply.text) :
                        reply.text[k].tok \notin {"fence", "fence_json"}}) = 1
    /\ \A k \in 1..Len(reply.text) : reply.text[k].tok # "junk"

TheJson(reply) ==
    reply.text[CHOOSE k \in 1..Len(reply.text) : reply.text[k].tok = "json"].value

MissingKey(reply) ==
    /\ ValidJson(reply)
    /\ TheJson(reply).type = "object"
    /\ TheJson(reply).keys # Keys

\* C2 as stated: analyze_event returns, and on a transport error, a reply
\* that is not JSON, or a JSON object missing one of the three keys, what it
\* returns is the fallback Estimate.
C2_Original ==
    pc = "score" =>
        /\ analysis.type # "unset"
        /\ (llm.kind = "error" \/ ~ValidJson(llm) \/ MissingKey(llm))
               => IsFallback(analysis)

\* C2 amended: analyze_event returns; on a transport error or a reply that
\* is not JSON it returns the fallback Estimate; a JSON object missing some
\* of the three keys is returned as parsed, without the missing keys.
C2_FallbackOnFailure ==
    pc = "score" =>
        /\ analysis.type # "unset"
        /\ (llm.kind = "error" \/ ~ValidJson(llm)) => IsFallback(analysis)
        /\ MissingKey(llm) => (analysis = TheJson(llm) /\ ~IsFallback(analysis))

C2_Witness ==
    /\ pc = "score"
    /\ llm.kind = "message"
    /\ ~ValidJson(llm)
    /\ IsFallback(analysis)

\* C3: whatever the news lookups and the model calls answer, run_analysis
\* returns one AnalysisResult per market taken, in the order fetched (so a
\* request that reached run_analysis ends with status 200).
C3_NeverAborts ==
    (pc = "done" /\ markets # <<>>) =>
        /\ response.statusCode = 200
        /\ Len(results) = Len(markets)
        /\ \A k \in 1..Len(results) : results[k].ticker = markets[k].ticker

\* C4: in every AnalysisResult, edge is estimated_probability minus
\* market_price of the same record; market_price is the market's yes_bid (50
\* if absent) and estimated_probability is the estimator's value (50 if
\* absent).
C4_EdgeIsDifference ==
    /\ Len(results) <= Len(markets)
    /\ \A k \in 1..Len(results) :
           /\ results[k].edge =
                  results[k].estimated_probability - results[k].market_price
           /\ results[k].market_price =
                  (IF markets[k].has_yes_bid THEN markets[k].yes_bid ELSE 50)
    /\ (results # <<>> /\ pc \in {"news", "fallback", "estimate", "respond"}) =>
           results[Len(results)].estimated_probability =
               (IF "estimated_probability" \in analysis.keys
                THEN analysis.estimated_probability ELSE 50)

C4_Witness ==
    /\ Len(results) = 2
    /\ ~markets[1].has_yes_bid
    /\ results[1].edge = 10
    /\ "estimated_probability" \notin analysis.keys
    /\ results[2].edge = -10

\* C5: search_news returns between 0 and 5 sources whatever the credential
\* and whatever the two providers answer.
C5_AtMostFiveSources ==
    /\ Len(sources) <= 5
    /\ \A k \in 1..Len(news_log) : news_log[k].produced \in 0..5

C5_Witness ==
    /\ pc = "estimate"
    /\ Len(sources) = 5
    /\ news_log = << [provider |-> "newsapi", produced |-> 5] >>

RssCalled == \E k \in 1..Len(news_log) : news_log[k].provider = "rss"

PrimaryProducedNone ==
    \A k \in 1..Len(news_log) :
        news_log[k].provider = "newsapi" => news_log[k].produced = 0

\* C6: when search_news has returned, the fallback feed was queried if and
\* only if the primary step produced no source; if it was not queried every
\* source is a primary one; every fallback source has an empty description;
\* primary yielding 0 and the feed 3 gives 3 sources with empty descriptions.
C6_FallbackIffPrimaryEmpty ==
    pc \in {"estimate", "score"} =>
        /\ RssCalled <=> PrimaryProducedNone
        /\ ~RssCalled =>
               /\ sources # <<>>
               /\ \A k \in 1..Len(sources) : sources[k].source # "Google News"
        /\ \A k \in 1..Len(sources) :
               sources[k].source = "Google News" => sources[k].description = ""
        /\ RssCalled =>
               /\ Len(sources) = news_log[Len(news_log)].produced
               /\ \A k \in 1..Len(sources) :
                      sources[k].source = "Google News" /\ sources[k].description = ""

C6_Witness ==
    /\ pc = "estimate"
    /\ news_log = << [provider |-> "newsapi", produced |-> 0],
                     [provider |-> "rss", produced |-> 3] >>
    /\ Len(sources) = 3
    /\ \A k \in 1..3 : sources[k].description = ""

Filtered == {filtered_results[k] : k \in 1..Len(filtered_results)}

\* C7: in a 200 response of the analysis, results holds exactly the analyzed
\* records with abs(edge) >= min_edge, in non-increasing order of abs(edge);
\* total_opportunities is its length and total_analyzed the number of
\* records before filtering.
C7_FilterAndSort ==
    response.kind = "success" =>
        /\ Filtered = {r \in Results : Abs(r.edge) >= min_edge}
        /\ Len(filtered_results) = Cardinality(Filtered)
        /\ \A j, k \in 1..Len(filtered_results) :
               j < k => Abs(filtered_results[j].edge) >= Abs(filtered_results[k].edge)
        /\ response.total_opportunities = Len(filtered_results)
        /\ response.total_analyzed = Len(results)
        /\ response.total_opportunities <= response.total_analyzed

C7_Witness ==
    /\ response.kind = "success"
    /\ min_edge = 10
    /\ Len(results) = 2
    /\ Len(filtered_results) = 2
    /\ filtered_results[1].ticker = 2
    /\ Abs(filtered_results[2].edge) = 10

\* Two markets at 40 and 60, the estimator answering {0.6, HIGH} and
\* {0.5, LOW}, min_edge 0.05, and the handler answered 200.
C8_Scenario ==
    /\ response.kind = "success"
    /\ min_edge = 5
    /\ Len(markets) = 2
    /\ Len(results) = 2
    /\ results[1].market_price = 40
    /\ results[1].estimated_probability = 60
    /\ results[1].confidence = "HIGH"
    /\ results[2].market_price = 60
    /\ results[2].estimated_probability = 50
    /\ results[2].confidence = "LOW"

\* C8 as stated: the scenario yields exactly 1 result, the first market with
\* edge 0.20.
C8_Original ==
    C8_Scenario =>
        /\ Len(filtered_results) = 1
        /\ filtered_results[1].ticker = 1
        /\ filtered_results[1].edge = 20

\* C8 amended: the scenario yields exactly 2 results, the first market with
\* edge 0.20 followed by the second market with edge -0.10 (its abs is 0.10,
\* not below min_edge).
C8_EndToEnd ==
    C8_Scenario =>
        /\ Len(filtered_results) = 2
        /\ filtered_results[1].ticker = 1
        /\ filtered_results[1].edge = 20
        /\ filtered_results[2].ticker = 2
        /\ filtered_results[2].edge = -10

C8_Witness == C8_Scenario /\ Len(filtered_results) = 2

\* C9: for every integer max_events, the number of markets analyzed in one
\* request is at most max_events and at most 15.
C9_AtMostMaxEvents ==
    response.kind = "success" =>
        /\ response.total_analyzed <= ParamValue(params.max_events, 10)
        /\ response.total_analyzed <= 15

====
